---- MODULE Spec2Model ----
(***************************************************************************)
(* Model of the DataQuest pipeline:                                        *)
(*   scripts/publish_open_dataset.py  listing fetchers, compare_files and  *)
(*                                    the reconciliation run (main)        *)
(*   orchestrator_lambda.py           trigger classification, the notebook *)
(*                                    dispatch (_handle_s3_event) and the  *)
(*                                    scheduled branch of lambda_handler   *)
(*   scripts/fetch_data_from_api.py   fetch_and_store_population_data      *)
(***************************************************************************)
EXTENDS Integers, Sequences, FiniteSets, TLC

\* ------------------------------------------------------------------ bounds
MaxNames == 3       \* number of distinct file names in a listing
MaxRecords == 2     \* number of records in an inbound event
MaxFiles == 2       \* number of file names known to the catalog and the store
MaxItems == 2       \* number of items of the "data" list of the API response
MaxRuns == 2        \* number of reconciliation runs made one after the other

\* ------------------------------------------------------------------ state
\* compare_files: the two listings passed and the tuple returned
VARIABLES cmp_pc, cmp_source, cmp_target, cmp_result
\* lambda_handler: the inbound event, the position of the invocation and the
\* exception that left it
VARIABLES event, h_pc, h_exc
\* _handle_s3_event: position, loop index, the two result lists, the number of
\* notebook calls per record, the records whose notebook call failed, the
\* exception raised, the environment and the notification
VARIABLES d_pc, rec_i, processed, skipped, invoked, nb_failed, d_exc,
          nb_env, queue_url, notified, sqs_sent
\* reconciliation: the remote catalog, the object store, the environment
\* check of main and the locals of each run of main
VARIABLES website, store, env_ok, run
\* fetch_and_store_population_data: position, the decoded response body and
\* the exception caught by its except clauses
VARIABLES fetch_pc, payload, fetch_exc
\* lambda_handler: what send_sqs_notification did, the number of times each
\* stage of the invocation was entered and the value returned
VARIABLES sqs_outcome, calls, h_result
\* the event source of the store: the objects written so far and by which
\* stage, the ObjectCreated notifications not yet delivered, the number of
\* invocations between the scheduled one and the current one, and the number
\* of population objects written
VARIABLES writes, pending, generation, pop_puts

cmp_vars == <<cmp_pc, cmp_source, cmp_target, cmp_result>>
cls_vars == <<event, h_pc, h_exc>>
disp_vars == <<d_pc, rec_i, processed, skipped, invoked, nb_failed, d_exc,
               nb_env, queue_url, notified, sqs_sent>>
pub_vars == <<website, store, env_ok, run>>
ing_vars == <<fetch_pc, payload, fetch_exc>>
ret_vars == <<sqs_outcome, calls, h_result>>
trg_vars == <<writes, pending, generation, pop_puts>>
vars == <<cmp_vars, cls_vars, disp_vars, pub_vars, ing_vars, ret_vars, trg_vars>>

\* ------------------------------------------------------------ value domains
NameUniverse == <<"a", "b", "c", "d", "e">>
Names == {NameUniverse[i] : i \in 1..MaxNames}
Sizes == {50, 100}
Stamps == {"Mon", "Tue"}
NoValue == "None"
NoneType == [type |-> "NoneType"]

\* =========================================================================
\* compare_files (publish_open_dataset.py 71-84)
\* =========================================================================
\* A listing as compare_files receives it: a dict name -> record with a size.
FileRecords == [size : Sizes, last_modified : Stamps]
Listings == UNION {[D -> FileRecords] : D \in SUBSET Names}

compare_files_no_size(website_files, s3_files) ==
    LET website_filenames == DOMAIN website_files
        s3_filenames == DOMAIN s3_files
    IN  [new_files |-> website_filenames \ s3_filenames,
         deleted_files |-> s3_filenames \ website_filenames,
         modified_files |-> {filename \in website_filenames \cap s3_filenames :
              website_files[filename] # s3_files[filename]}]

compare_files_no_subtract(website_files, s3_files) ==
    LET website_filenames == DOMAIN website_files
        s3_filenames == DOMAIN s3_files
        common_files == website_filenames \cap s3_filenames
    IN  [new_files |-> website_filenames \ s3_filenames,
         deleted_files |-> s3_filenames,
         modified_files |-> {filename \in common_files :
              website_files[filename].size # s3_files[filename].size}]

compare_files_all_common(website_files, s3_files) ==
    LET website_filenames == DOMAIN website_files
        s3_filenames == DOMAIN s3_files
    IN  [new_files |-> website_filenames \ s3_filenames,
         deleted_files |-> s3_filenames \ website_filenames,
         modified_files |-> website_filenames \cap s3_filenames]

compare_files(website_files, s3_files) ==
    LET website_filenames == DOMAIN website_files
        s3_filenames == DOMAIN s3_files
        new_files == website_filenames \ s3_filenames
        deleted_files == s3_filenames \ website_filenames
        common_files == website_filenames \cap s3_filenames
        modified_files == {filename \in common_files :
            website_files[filename].size # s3_files[filename].size}
    IN  [new_files |-> new_files,
         deleted_files |-> deleted_files,
         modified_files |-> modified_files]

NoDiff == [new_files |-> {}, deleted_files |-> {}, modified_files |-> {}]

CompareIdle ==
    /\ cmp_pc = "idle"
    /\ cmp_source = <<>>
    /\ cmp_target = <<>>
    /\ cmp_result = NoDiff

CompareInit ==
    /\ cmp_pc = "call"
    /\ cmp_source \in Listings
    /\ cmp_target \in Listings
    /\ cmp_result = NoDiff

\* one call compare_files(cmp_source, cmp_target)
Compare ==
    /\ cmp_pc = "call"
    /\ cmp_pc' = "returned"
    /\ cmp_result' = compare_files(cmp_source, cmp_target)
    /\ UNCHANGED <<cmp_source, cmp_target, cls_vars, disp_vars, pub_vars, ing_vars, ret_vars, trg_vars>>


\* ------------------------------------------------------------------ C1-C3
Compared == cmp_pc = "returned"

unchanged_files ==
    {k \in DOMAIN cmp_source \cap DOMAIN cmp_target :
        cmp_source[k].size = cmp_target[k].size}

\* C1: added, removed and modified are pairwise disjoint and, with the
\* unchanged names (present in both with equal size), cover every name of
\* either listing; added = keys(A) \ keys(B), removed = keys(B) \ keys(A).
C1_Partition ==
    Compared =>
        LET added == cmp_result.new_files
            removed == cmp_result.deleted_files
            modified == cmp_result.modified_files
        IN  /\ added \cap removed = {}
            /\ added \cap modified = {}
            /\ removed \cap modified = {}
            /\ unchanged_files \cap (added \cup removed \cup modified) = {}
            /\ added \cup removed \cup modified \cup unchanged_files
                   = DOMAIN cmp_source \cup DOMAIN cmp_target
            /\ added = DOMAIN cmp_source \ DOMAIN cmp_target
            /\ removed = DOMAIN cmp_target \ DOMAIN cmp_source

\* Scenario 1 shape: one name only in the source, one shared with equal size,
\* one only in the target.
C1_Witness ==
    /\ Compared
    /\ Cardinality(cmp_result.new_files) = 1
    /\ Cardinality(cmp_result.deleted_files) = 1
    /\ cmp_result.modified_files = {}
    /\ Cardinality(unchanged_files) = 1

\* C2: comparing a listing with itself yields three empty sets.
C2_SelfDiffEmpty ==
    (Compared /\ cmp_source = cmp_target) =>
        /\ cmp_result.new_files = {}
        /\ cmp_result.deleted_files = {}
        /\ cmp_result.modified_files = {}

C2_Witness ==
    /\ Compared
    /\ cmp_source = cmp_target
    /\ Cardinality(DOMAIN cmp_source) >= 2

\* C3: a shared name is in modified iff the sizes differ, whatever the
\* last_modified values; a name in modified is neither added nor removed.
C3_ModifiedIffSize ==
    Compared =>
        \A k \in DOMAIN cmp_source \cap DOMAIN cmp_target :
            /\ k \in cmp_result.modified_files
                   <=> cmp_source[k].size # cmp_target[k].size
            /\ k \notin cmp_result.new_files
            /\ k \notin cmp_result.deleted_files

\* one shared name with equal size and different last_modified, and one
\* shared name with different sizes
C3_Witness ==
    /\ Compared
    /\ \E k \in DOMAIN cmp_source \cap DOMAIN cmp_target :
           /\ cmp_source[k].size = cmp_target[k].size
           /\ cmp_source[k].last_modified # cmp_target[k].last_modified
           /\ k \notin cmp_result.modified_files
    /\ \E k \in DOMAIN cmp_source \cap DOMAIN cmp_target :
           /\ cmp_source[k].size # cmp_target[k].size
           /\ k \in cmp_result.modified_files

\* =========================================================================
\* Trigger classification (orchestrator_lambda.py 89-96, 164-170)
\* =========================================================================
\* Strings are sequences of characters, so that ==, in, startswith, endswith
\* and unquote_plus are computed on the characters.
s_aws_s3 == <<"a", "w", "s", ":", "s", "3">>
s_aws_sqs == <<"a", "w", "s", ":", "s", "q", "s">>
s_ObjectCreated == <<"O", "b", "j", "e", "c", "t", "C", "r", "e", "a", "t", "e", "d">>
s_ObjectCreated_Put == <<"O", "b", "j", "e", "c", "t", "C", "r", "e", "a", "t", "e", "d", ":", "P", "u", "t">>
s_s3_ObjectCreated_Copy == <<"s", "3", ":", "O", "b", "j", "e", "c", "t", "C", "r", "e", "a", "t", "e", "d", ":", "C", "o", "p", "y">>
s_ObjectRemoved_Delete == <<"O", "b", "j", "e", "c", "t", "R", "e", "m", "o", "v", "e", "d", ":", "D", "e", "l", "e", "t", "e">>
s_ObjectCreate == <<"O", "b", "j", "e", "c", "t", "C", "r", "e", "a", "t", "e">>
s_population_data_ == <<"p", "o", "p", "u", "l", "a", "t", "i", "o", "n", "_", "d", "a", "t", "a", "/">>
s_json == <<".", "j", "s", "o", "n">>
s_bucket == <<"r", "e", "a", "r", "c">>

\* A JSON value at a string-typed position: absent, null, or a string.
Missing == [tag |-> "missing", s |-> <<>>]
Null == [tag |-> "null", s |-> <<>>]
Str(s) == [tag |-> "str", s |-> s]

\* a in b for Python strings: a occurs as a contiguous substring of b
StrIn(a, b) ==
    \E i \in 0..(Len(b) - Len(a)) : SubSeq(b, i + 1, i + Len(a)) = a

startswith(s, p) == Len(p) <= Len(s) /\ SubSeq(s, 1, Len(p)) = p
endswith(s, p) == Len(p) <= Len(s) /\ SubSeq(s, Len(s) - Len(p) + 1, Len(s)) = p

\* One element of event["Records"]: a mapping with optional eventSource,
\* eventName and s3.object.key, or a value that is no mapping (is_dict FALSE).
NonDictRecord ==
    [is_dict |-> FALSE, eventSource |-> Missing, eventName |-> Missing, key |-> Missing]
DictRecord(src, name, key) ==
    [is_dict |-> TRUE, eventSource |-> src, eventName |-> name, key |-> key]

\* An inbound event: not a mapping; a mapping without "Records"; a mapping
\* whose "Records" is null; a mapping whose "Records" is a list.
NonDictEvent == [is_dict |-> FALSE, has_records |-> FALSE, is_list |-> FALSE, Records |-> <<>>]
NoRecordsEvent == [is_dict |-> TRUE, has_records |-> FALSE, is_list |-> FALSE, Records |-> <<>>]
NullRecordsEvent == [is_dict |-> TRUE, has_records |-> TRUE, is_list |-> FALSE, Records |-> <<>>]
ListEvent(recs) == [is_dict |-> TRUE, has_records |-> TRUE, is_list |-> TRUE, Records |-> recs]

SeqsUpTo(S, n) == UNION {[1..k -> S] : k \in 0..n}

\* rec.get("eventSource") == "aws:s3" and "ObjectCreated" in rec.get("eventName", "")
\* for one record: "True", "False", or the exception the expression raises.
RecordMatches_no_source(rec) ==
    IF ~rec.is_dict THEN "AttributeError"
    ELSE IF rec.eventName.tag = "missing" THEN "False"
    ELSE IF rec.eventName.tag = "null" THEN "TypeError"
    ELSE IF StrIn(s_ObjectCreated, rec.eventName.s) THEN "True" ELSE "False"

RecordMatches(rec) ==
    IF ~rec.is_dict THEN "AttributeError"
    ELSE IF ~(rec.eventSource.tag = "str" /\ rec.eventSource.s = s_aws_s3) THEN "False"
    ELSE IF rec.eventName.tag = "missing" THEN "False"
    ELSE IF rec.eventName.tag = "null" THEN "TypeError"
    ELSE IF StrIn(s_ObjectCreated, rec.eventName.s) THEN "True" ELSE "False"

\* the for loop of _is_s3_put_event over a list, returning at the first match
RECURSIVE ScanRecords(_)
ScanRecords(recs) ==
    IF recs = <<>> THEN "False"
    ELSE LET m == RecordMatches(Head(recs))
         IN  IF m = "False" THEN ScanRecords(Tail(recs)) ELSE m

\* _is_s3_put_event(event): "True", "False", or the exception raised
_is_s3_put_event(ev) ==
    IF ~ev.is_dict \/ ~ev.has_records THEN "False"
    ELSE IF ~ev.is_list THEN "TypeError"
    ELSE ScanRecords(ev.Records)

\* ---- inputs of the classification
ClassifySources == {Missing, Str(s_aws_s3), Str(s_aws_sqs)}
ClassifyNames ==
    {Missing, Null, Str(s_ObjectCreated_Put), Str(s_s3_ObjectCreated_Copy),
     Str(s_ObjectRemoved_Delete), Str(s_ObjectCreate)}
ClassifyRecords ==
    {NonDictRecord}
    \cup {DictRecord(src, name, Missing) : src \in ClassifySources, name \in ClassifyNames}
ClassifyEvents ==
    {NonDictEvent, NoRecordsEvent, NullRecordsEvent}
    \cup {ListEvent(recs) : recs \in SeqsUpTo(ClassifyRecords, MaxRecords)}

ClassifyIdle ==
    /\ event = NonDictEvent
    /\ h_pc = "idle"
    /\ h_exc = NoValue

ClassifyInit ==
    /\ event \in ClassifyEvents
    /\ h_pc = "Start"
    /\ h_exc = NoValue

\* lambda_handler 164-170: the branch taken on _is_s3_put_event(event)
Classify ==
    /\ h_pc = "Start"
    /\ LET r == _is_s3_put_event(event)
       IN  /\ h_pc' = CASE r = "True" -> "Dispatch"
                        [] r = "False" -> "Ingest"
                        [] OTHER -> "Error"
           /\ h_exc' = IF r \in {"True", "False"} THEN NoValue ELSE r
    /\ UNCHANGED <<event, cmp_vars, disp_vars, pub_vars, ing_vars, ret_vars, trg_vars>>

\* ---------------------------------------------------------------- C7, C8
\* The event is a mapping-shaped trigger: "Records", when present, is a list
\* of mappings whose eventName, when present, is a string.
WellFormedEvent ==
    event.is_dict /\ event.has_records =>
        /\ event.is_list
        /\ \A i \in 1..Len(event.Records) :
               /\ event.Records[i].is_dict
               /\ event.Records[i].eventName.tag # "null"

\* the event has a non-empty list of records, one of which has eventSource
\* aws:s3 and an eventName containing ObjectCreated
IsStorageCreated ==
    /\ event.is_dict /\ event.has_records /\ event.is_list
    /\ event.Records # <<>>
    /\ \E i \in 1..Len(event.Records) :
           /\ event.Records[i].is_dict
           /\ event.Records[i].eventSource = Str(s_aws_s3)
           /\ event.Records[i].eventName.tag = "str"
           /\ StrIn(s_ObjectCreated, event.Records[i].eventName.s)

Classified == h_pc \in {"Dispatch", "Ingest", "Error"}

C8_ClassifyTotal ==
    Classified =>
        /\ h_pc # "Error"
        /\ ~IsStorageCreated => h_pc = "Ingest"

\* =========================================================================
\* Notebook dispatch: _handle_s3_event (orchestrator_lambda.py 99-161),
\* _execute_notebook_from_s3 (40-86), send_sqs_notification (22-37)
\* =========================================================================
s_s3_scheme == <<"s", "3", ":", "/", "/">>
k_population_x_json == <<"p", "o", "p", "u", "l", "a", "t", "i", "o", "n", "_", "d", "a", "t", "a", "/", "x", ".", "j", "s", "o", "n">>
k_other_x_json == <<"o", "t", "h", "e", "r", "/", "x", ".", "j", "s", "o", "n">>
k_population_pct_x_json == <<"p", "o", "p", "u", "l", "a", "t", "i", "o", "n", "_", "d", "a", "t", "a", "%", "2", "F", "x", ".", "j", "s", "o", "n">>
k_population_x_csv == <<"p", "o", "p", "u", "l", "a", "t", "i", "o", "n", "_", "d", "a", "t", "a", "/", "x", ".", "c", "s", "v">>
k_population_a_plus_b == <<"p", "o", "p", "u", "l", "a", "t", "i", "o", "n", "_", "d", "a", "t", "a", "/", "a", "+", "b", ".", "j", "s", "o", "n">>

\* the %XX escapes that occur in the keys above
HexDigits == {"0", "1", "2", "3", "4", "5", "6", "7", "8", "9",
              "A", "B", "C", "D", "E", "F", "a", "b", "c", "d", "e", "f"}
HexChar(h, l) ==
    CASE h = "2" /\ l \in {"F", "f"} -> "/"
      [] h = "2" /\ l \in {"E", "e"} -> "."
      [] h = "2" /\ l \in {"B", "b"} -> "+"
      [] h = "2" /\ l = "0" -> " "
      [] OTHER -> "?"

\* urllib.parse.unquote: every %XX with two hex digits becomes its character
RECURSIVE unquote(_)
unquote(s) ==
    IF s = <<>> THEN <<>>
    ELSE IF Head(s) = "%" /\ Len(s) >= 3 /\ s[2] \in HexDigits /\ s[3] \in HexDigits
         THEN <<HexChar(s[2], s[3])>> \o unquote(SubSeq(s, 4, Len(s)))
         ELSE <<Head(s)>> \o unquote(Tail(s))

\* urllib.parse.unquote_plus: '+' becomes ' ', then unquote
unquote_plus(s) ==
    unquote([i \in 1..Len(s) |-> IF s[i] = "+" THEN " " ELSE s[i]])

\* line 124: the key names a JSON file under population_data/
key_matches(key) ==
    startswith(key, s_population_data_) /\ endswith(key, s_json)

json_uri(bkt, key) == s_s3_scheme \o bkt \o <<"/">> \o key

\* the entry appended to processed (line 143) for log-only execution
ProcessedEntry(bkt, key) ==
    [inputJsonUri |-> json_uri(bkt, key), outputUploaded |-> FALSE,
     outputS3Uri |-> NoValue, cloudwatchLogging |-> TRUE]

\* the entry appended to skipped (line 125)
SkippedEntry(bkt, key) ==
    [bucket |-> bkt, key |-> key, reason |-> "not population_data/*.json"]

\* ---- inputs of the dispatch: events that _is_s3_put_event accepts
DispatchKeys ==
    {Missing, Str(k_population_x_json), Str(k_other_x_json),
     Str(k_population_pct_x_json), Str(k_population_x_csv),
     Str(k_population_a_plus_b)}
DispatchRecords ==
    {NonDictRecord}
    \cup {DictRecord(src, name, key) :
            src \in {Str(s_aws_s3), Str(s_aws_sqs)},
            name \in {Str(s_ObjectCreated_Put), Str(s_ObjectRemoved_Delete)},
            key \in DispatchKeys}
DispatchEvents ==
    {ev \in {ListEvent(recs) : recs \in SeqsUpTo(DispatchRecords, MaxRecords)} :
        _is_s3_put_event(ev) = "True"}

DispatchIdle ==
    /\ d_pc = "idle"
    /\ rec_i = 0
    /\ processed = <<>>
    /\ skipped = <<>>
    /\ invoked = <<>>
    /\ nb_failed = {}
    /\ d_exc = NoValue
    /\ nb_env = TRUE
    /\ queue_url = TRUE
    /\ notified = FALSE
    /\ sqs_sent = 0

\* nb_env: NOTEBOOK_S3_BUCKET and NOTEBOOK_S3_KEY are set;
\* queue_url: SQS_QUEUE_URL is set to a non-empty value
DispatchInit ==
    /\ event \in DispatchEvents
    /\ h_pc = "Dispatch"
    /\ h_exc = NoValue
    /\ d_pc = "start"
    /\ rec_i = 0
    /\ processed = <<>>
    /\ skipped = <<>>
    /\ invoked = [i \in 1..Len(event.Records) |-> 0]
    /\ nb_failed = {}
    /\ d_exc = NoValue
    /\ nb_env \in BOOLEAN
    /\ queue_url \in BOOLEAN
    /\ notified = FALSE
    /\ sqs_sent = 0

\* an exception leaves _handle_s3_event and lambda_handler
DispatchRaise(exc) ==
    /\ d_pc' = "raised"
    /\ d_exc' = exc
    /\ h_pc' = "Error"
    /\ h_exc' = exc

\* lines 104-115: os.environ["NOTEBOOK_S3_BUCKET"], os.environ["NOTEBOOK_S3_KEY"]
DispatchStart ==
    /\ h_pc = "Dispatch"
    /\ d_pc = "start"
    /\ calls' = [calls EXCEPT !.dispatch = @ + 1]
    /\ IF nb_env
       THEN /\ d_pc' = "loop"
            /\ rec_i' = 1
            /\ UNCHANGED <<d_exc, h_pc, h_exc>>
       ELSE /\ DispatchRaise("KeyError")
            /\ UNCHANGED rec_i
    /\ UNCHANGED <<event, processed, skipped, invoked, nb_failed, nb_env,
                   queue_url, notified, sqs_sent,
                   cmp_vars, pub_vars, ing_vars, sqs_outcome, h_result, trg_vars>>

\* lines 117-129: one iteration of the loop up to the notebook call
DispatchRecord ==
    /\ d_pc = "loop"
    /\ rec_i <= Len(event.Records)
    /\ LET rec == event.Records[rec_i]
           key == unquote_plus(rec.key.s)
       IN  IF ~rec.is_dict
           THEN /\ DispatchRaise("AttributeError")
                /\ UNCHANGED <<rec_i, skipped, invoked>>
           ELSE IF rec.eventSource # Str(s_aws_s3)
           THEN /\ rec_i' = rec_i + 1
                /\ UNCHANGED <<d_pc, d_exc, h_pc, h_exc, skipped, invoked>>
           ELSE IF rec.key.tag = "missing"
           THEN /\ DispatchRaise("KeyError")
                /\ UNCHANGED <<rec_i, skipped, invoked>>
           ELSE IF ~key_matches(key)
           THEN /\ skipped' = Append(skipped, SkippedEntry(s_bucket, key))
                /\ rec_i' = rec_i + 1
                /\ UNCHANGED <<d_pc, d_exc, h_pc, h_exc, invoked>>
           ELSE /\ d_pc' = "nb_download"
                /\ invoked' = [invoked EXCEPT ![rec_i] = @ + 1]
                /\ UNCHANGED <<rec_i, d_exc, h_pc, h_exc, skipped>>
    /\ UNCHANGED <<event, processed, nb_failed, nb_env, queue_url, notified, sqs_sent,
                   cmp_vars, pub_vars, ing_vars, ret_vars, trg_vars>>

\* the object store maps a key to the size of its object
put_object(st, key, size) ==
    [k \in DOMAIN st \cup {key} |-> IF k = key THEN size ELSE st[k]]

delete_object(st, key) == [k \in DOMAIN st \ {key} |-> st[k]]

\* a put on the store makes it emit one ObjectCreated notification for the key
ObjectCreated(by, key) ==
    /\ writes' = writes \cup {[by |-> by, key |-> key]}
    /\ pending' = pending \cup {[key |-> key, gen |-> generation]}

\* _handle_s3_event 113-115: out_bucket = None forces the log-only mode
out_bucket_configured == TRUE

out_bucket == FALSE

\* _execute_notebook_from_s3 74: basename(out_path), out_prefix being None
executed_key == <<"executed_ts.ipynb">>

\* _execute_notebook_from_s3 line 56: s3.download_file of the notebook;
\* a failure is not caught in _handle_s3_event
NotebookDownload ==
    /\ d_pc = "nb_download"
    /\ \E ok \in BOOLEAN :
         IF ok
         THEN /\ d_pc' = "nb_execute"
              /\ UNCHANGED <<d_exc, h_pc, h_exc, nb_failed>>
         ELSE /\ DispatchRaise("ClientError")
              /\ nb_failed' = nb_failed \cup {rec_i}
    /\ UNCHANGED <<event, rec_i, processed, skipped, invoked, nb_env,
                   queue_url, notified, sqs_sent,
                   cmp_vars, pub_vars, ing_vars, ret_vars, trg_vars>>

\* _execute_notebook_from_s3 lines 63-86: pm.execute_notebook, no upload as
\* output_bucket is None; then line 143 appends to processed
NotebookExecute ==
    /\ d_pc = "nb_execute"
    /\ \E ok \in BOOLEAN :
         IF ok
         THEN /\ processed' = Append(processed,
                     ProcessedEntry(s_bucket, unquote_plus(event.Records[rec_i].key.s)))
              /\ rec_i' = rec_i + 1
              /\ d_pc' = "loop"
              /\ IF out_bucket
                 THEN /\ store' = put_object(store, executed_key, 1)
                      /\ ObjectCreated("dispatch", executed_key)
                 ELSE UNCHANGED <<store, writes, pending>>
              /\ UNCHANGED <<d_exc, h_pc, h_exc, nb_failed>>
         ELSE /\ DispatchRaise("PapermillExecutionError")
              /\ nb_failed' = nb_failed \cup {rec_i}
              /\ UNCHANGED <<rec_i, processed, store, writes, pending>>
    /\ UNCHANGED <<event, skipped, invoked, nb_env, queue_url, notified, sqs_sent,
                   website, env_ok, run, generation, pop_puts,
                   cmp_vars, ing_vars, ret_vars>>

\* send_sqs_notification 22-37: without a queue URL the call logs a warning
\* and returns; otherwise sqs.send_message either returns or raises
send_sqs_notification(url_set) ==
    IF ~url_set THEN {"skipped"} ELSE {"sent", "raised"}

\* lines 154-159 and 183-188: notified = bool(queue_url) after the call,
\* False in the except clause
notified_value_ignoring_raise(url_set, outcome) == url_set

notified_value(url_set, outcome) ==
    IF outcome = "raised" THEN FALSE ELSE url_set

\* the call made in the try block of either branch
Notify(outcome) ==
    /\ outcome \in send_sqs_notification(queue_url)
    /\ sqs_outcome' = outcome
    /\ sqs_sent' = IF outcome = "sent" THEN sqs_sent + 1 ELSE sqs_sent
    /\ notified' = notified_value(queue_url, outcome)
    /\ calls' = [calls EXCEPT !.notify = @ + 1]

NoResult ==
    [kind |-> "none", fetch |-> NoneType, publish |-> NoneType,
     processed |-> <<>>, skipped |-> <<>>, sqsNotified |-> FALSE]

\* lambda_handler 166-167: the result of _handle_s3_event is returned
dispatch_return_falls_through == "Ingest"

dispatch_return == "Done"

\* lines 145-161: send_sqs_notification wrapped in try/except, then return
DispatchNotify ==
    /\ d_pc = "loop"
    /\ rec_i > Len(event.Records)
    /\ \E outcome \in {"skipped", "sent", "raised"} :
         /\ Notify(outcome)
         /\ h_result' = [NoResult EXCEPT !.kind = "dispatch",
                                         !.processed = processed,
                                         !.skipped = skipped,
                                         !.sqsNotified = notified_value(queue_url, outcome)]
    /\ d_pc' = "returned"
    /\ h_pc' = dispatch_return
    /\ UNCHANGED <<event, h_exc, rec_i, processed, skipped, invoked, nb_failed,
                   d_exc, nb_env, queue_url,
                   cmp_vars, pub_vars, ing_vars, trg_vars>>

DispatchNext ==
    \/ DispatchStart
    \/ DispatchRecord
    \/ NotebookDownload
    \/ NotebookExecute
    \/ DispatchNotify

\* ---------------------------------------------------------------- C9, C10
DispatchFinished == d_pc \in {"returned", "raised"}

\* the environment is configured and every record is a mapping that carries
\* an object key when it comes from the object store
DispatchWellFormed ==
    /\ nb_env
    /\ \A i \in 1..Len(event.Records) :
           /\ event.Records[i].is_dict
           /\ event.Records[i].eventSource = Str(s_aws_s3)
                  => event.Records[i].key.tag = "str"

S3RecordIdx ==
    {i \in 1..Len(event.Records) :
        event.Records[i].is_dict /\ event.Records[i].eventSource = Str(s_aws_s3)}

DecodedKey(i) == unquote_plus(event.Records[i].key.s)

InProcessed(i) ==
    \E j \in 1..Len(processed) :
        processed[j].inputJsonUri = json_uri(s_bucket, DecodedKey(i))

InSkipped(i) ==
    \E j \in 1..Len(skipped) : skipped[j].key = DecodedKey(i)

\* C9: when _handle_s3_event ends, every record from the object store is in
\* exactly one of processed and skipped; it is in processed, with the notebook
\* run once for it, iff its decoded key starts with population_data/ and ends
\* with .json; otherwise it is in skipped and the notebook was not run for it.
C9_ProcessedOrSkipped ==
    (DispatchFinished /\ DispatchWellFormed) =>
        \A i \in S3RecordIdx :
            /\ InProcessed(i) # InSkipped(i)
            /\ InProcessed(i) <=> key_matches(DecodedKey(i))
            /\ InProcessed(i) => invoked[i] = 1
            /\ InSkipped(i) => invoked[i] = 0

\* C10: when the notebook call of one record fails, the dispatch still
\* returns and every later matching record has been attempted.
C10_RecordIsolation ==
    (DispatchFinished /\ DispatchWellFormed /\ nb_failed # {}) =>
        /\ d_pc = "returned"
        /\ \A i \in S3RecordIdx :
               key_matches(DecodedKey(i)) => invoked[i] = 1

\* =========================================================================
\* Reconciliation run: publish_open_dataset.py get_website_files (14-44),
\* get_s3_files (47-68), S3Logger.save_logs (109-127), main (130-246)
\* =========================================================================
FileNames == {NameUniverse[i] : i \in 1..MaxFiles}
web_stamp == "Mon"
store_stamp == "Tue"

\* URLs and object keys are sequences of path segments; a trailing empty
\* segment is a trailing "/".
base_url == <<"pub", "time.series", "pr", "">>
parent_url == <<"pub", "time.series", "">>
file_url(n) == <<"pub", "time.series", "pr", n>>
basename(path) == path[Len(path)]

\* file_url.startswith(url), url ending in "/"
url_startswith(u, url) ==
    /\ Len(u) >= Len(url)
    /\ SubSeq(u, 1, Len(url) - 1) = SubSeq(url, 1, Len(url) - 1)

\* the anchors of the index page: the parent directory and one per file
page_links(web) == {parent_url} \cup {file_url(n) : n \in DOMAIN web}

\* get_website_files: {} when the index request fails; otherwise one entry
\* per link under the base URL that is no directory and whose HEAD succeeded
get_website_files(web, page_ok, head_failed) ==
    IF ~page_ok THEN <<>>
    ELSE LET urls == {u \in page_links(web) :
                         /\ url_startswith(u, base_url)
                         /\ basename(u) # ""
                         /\ basename(u) \notin head_failed}
         IN  [filename \in {basename(u) : u \in urls} |->
                 [size |-> web[filename],
                  last_modified |-> web_stamp,
                  url |-> file_url(filename)]]

\* ---- the object store
flat_key(n) == <<"bls_data", n>>
nested_key(n) == <<"bls_data", "sub", n>>
marker_key == <<"bls_data", "">>
log_key == <<"logs", "sync_log">>

\* list_objects_v2 returns keys in byte order: "bls_data/" first, then
\* "bls_data/<n>" by name, then "bls_data/sub/<n>" by name (the names used
\* here sort before "sub").
NameIndex(n) == CHOOSE i \in 1..Len(NameUniverse) : NameUniverse[i] = n
KeyRank(key) ==
    IF key = marker_key THEN 0
    ELSE IF Len(key) = 2 THEN NameIndex(key[2])
    ELSE Len(NameUniverse) + NameIndex(key[3])

\* the keys under Prefix='bls_data/' in listing order
RECURSIVE SortKeys(_)
SortKeys(keys) ==
    IF keys = {} THEN <<>>
    ELSE LET k == CHOOSE x \in keys : \A y \in keys : KeyRank(x) <= KeyRank(y)
         IN  <<k>> \o SortKeys(keys \ {k})

list_objects(st) == SortKeys({k \in DOMAIN st : k[1] = "bls_data" /\ Len(k) >= 2})

\* the loop of get_s3_files: a later key with the same basename overwrites
RECURSIVE CollectS3(_, _, _)
CollectS3(st, keys, s3_files) ==
    IF keys = <<>> THEN s3_files
    ELSE LET key == Head(keys)
             filename == basename(key)
             entry == [size |-> st[key], last_modified |-> store_stamp, key |-> key]
         IN  IF filename # ""
             THEN CollectS3(st, Tail(keys),
                     [n \in DOMAIN s3_files \cup {filename} |->
                         IF n = filename THEN entry ELSE s3_files[n]])
             ELSE CollectS3(st, Tail(keys), s3_files)

\* get_s3_files: {} when listing fails
get_s3_files(st, list_ok) ==
    IF ~list_ok THEN <<>> ELSE CollectS3(st, list_objects(st), <<>>)

\* ---- one run of main
Runs == {1, 2}

listing_missing_never(website_files, s3_files) == FALSE

\* line 170: either listing is empty
listing_missing(website_files, s3_files) ==
    DOMAIN website_files = {} \/ DOMAIN s3_files = {}

\* the except clauses at 194, 212 and 235 log and let the loop go on with the
\* names not yet visited
after_file_error_break(rest) == {}

after_file_error(rest) == rest

IdleRun ==
    [pc |-> "idle", website_files |-> <<>>, s3_files |-> <<>>,
     new_files |-> {}, deleted_files |-> {}, modified_files |-> {},
     todo |-> {}, filename |-> NoValue, body |-> 0,
     attempts |-> [n \in FileNames |-> 0], log |-> {},
     page_ok |-> TRUE, head_failed |-> {}, list_ok |-> TRUE,
     result |-> NoneType, round |-> 1, retry |-> {}]

PublishIdle ==
    /\ website = <<>>
    /\ store = <<>>
    /\ env_ok = TRUE
    /\ run = [r \in Runs |-> IdleRun]

\* the catalog, and a store holding flat objects, possibly one nested object
\* and possibly the prefix marker
Catalogs == UNION {[D -> Sizes] : D \in SUBSET FileNames}
ExtraObjects ==
    {<<>>}
    \cup {[k \in {marker_key} |-> 0]}
    \cup {[k \in {nested_key(NameUniverse[1])} |-> s] : s \in Sizes}
Stores ==
    {[k \in DOMAIN flat \cup DOMAIN extra |->
         IF k \in DOMAIN flat THEN flat[k] ELSE extra[k]] :
       flat \in UNION {[{flat_key(n) : n \in D} -> Sizes] : D \in SUBSET FileNames},
       extra \in ExtraObjects}

PublishInit ==
    /\ website \in Catalogs
    /\ store \in Stores
    /\ env_ok \in BOOLEAN
    /\ run = [r \in Runs |-> IF r = 1 THEN [IdleRun EXCEPT !.pc = "start"] ELSE IdleRun]

Set(r, rec) == run' = [run EXCEPT ![r] = rec]

\* lines 131-153: the environment check raises before the try block
MainStart(r) ==
    /\ run[r].pc = "start"
    /\ Set(r, [run[r] EXCEPT !.pc = IF env_ok THEN "fetch_web" ELSE "raised"])
    /\ UNCHANGED <<website, store, env_ok, cmp_vars, cls_vars, disp_vars, ing_vars, ret_vars, trg_vars>>

\* line 165
MainFetchWebsite(r) ==
    /\ run[r].pc = "fetch_web"
    /\ \E page_ok \in BOOLEAN, head_failed \in SUBSET DOMAIN website :
         /\ ~page_ok => head_failed = {}
         /\ Set(r, [run[r] EXCEPT
                !.pc = "fetch_s3",
                !.page_ok = page_ok,
                !.head_failed = head_failed,
                !.website_files = get_website_files(website, page_ok, head_failed)])
    /\ UNCHANGED <<website, store, env_ok, cmp_vars, cls_vars, disp_vars, ing_vars, ret_vars, trg_vars>>

\* line 168
MainFetchS3(r) ==
    /\ run[r].pc = "fetch_s3"
    /\ \E list_ok \in BOOLEAN :
         Set(r, [run[r] EXCEPT
             !.pc = "compare",
             !.list_ok = list_ok,
             !.s3_files = get_s3_files(store, list_ok)])
    /\ UNCHANGED <<website, store, env_ok, cmp_vars, cls_vars, disp_vars, ing_vars, ret_vars, trg_vars>>

\* the loop that follows `phase`, skipping the loops whose set is empty
\* (lines 177, 198, 216); after the last one the finally clause
NextLoop(phase, d) ==
    IF phase = "compare" /\ d.new_files # {}
        THEN [pc |-> "new", todo |-> d.new_files]
    ELSE IF phase \in {"compare", "new"} /\ d.deleted_files # {}
        THEN [pc |-> "deleted", todo |-> d.deleted_files]
    ELSE IF phase \in {"compare", "new", "deleted"} /\ d.modified_files # {}
        THEN [pc |-> "modified", todo |-> d.modified_files]
    ELSE [pc |-> "save_logs", todo |-> {}]

\* where the run is after one file of the loop `phase` has been handled
Continue(rr, phase, rest) ==
    IF rest # {}
    THEN [rr EXCEPT !.pc = phase, !.todo = rest, !.filename = NoValue, !.body = 0]
    ELSE LET nx == NextLoop(phase, rr)
         IN  [rr EXCEPT !.pc = nx.pc, !.todo = nx.todo, !.filename = NoValue, !.body = 0]

\* lines 170-174: return when a listing is empty, else compare_files
MainCompare(r) ==
    /\ run[r].pc = "compare"
    /\ IF listing_missing(run[r].website_files, run[r].s3_files)
       THEN Set(r, [run[r] EXCEPT !.pc = "save_logs"])
       ELSE LET d == compare_files(run[r].website_files, run[r].s3_files)
                nx == NextLoop("compare", d)
            IN  Set(r, [run[r] EXCEPT
                    !.new_files = d.new_files,
                    !.deleted_files = d.deleted_files,
                    !.modified_files = d.modified_files,
                    !.pc = nx.pc,
                    !.todo = nx.todo])
    /\ UNCHANGED <<website, store, env_ok, cmp_vars, cls_vars, disp_vars, ing_vars, ret_vars, trg_vars>>

\* lines 185-187 and 226-228: session.get of one new or modified file
MainDownload(r) ==
    /\ run[r].pc \in {"new", "modified"}
    /\ \E filename \in run[r].todo, ok \in BOOLEAN :
         LET rr == [run[r] EXCEPT !.attempts[filename] = @ + 1]
             rest == run[r].todo \ {filename}
             phase == run[r].pc
         IN  IF ok
             THEN Set(r, [rr EXCEPT
                     !.pc = IF phase = "new" THEN "new_put" ELSE "modified_put",
                     !.filename = filename,
                     !.todo = rest,
                     !.body = website[filename]])
             ELSE Set(r, Continue([rr EXCEPT !.log = @ \cup {<<"error", phase, filename>>}],
                                  phase, after_file_error(rest)))
    /\ UNCHANGED <<website, store, env_ok, cmp_vars, cls_vars, disp_vars, ing_vars, ret_vars, trg_vars>>

\* lines 188-195 and 229-236: s3_client.put_object of the downloaded body
MainUpload(r) ==
    /\ run[r].pc \in {"new_put", "modified_put"}
    /\ LET phase == IF run[r].pc = "new_put" THEN "new" ELSE "modified"
           filename == run[r].filename
       IN  \E ok \in BOOLEAN :
             IF ok
             THEN /\ store' = put_object(store, flat_key(filename), run[r].body)
                  /\ ObjectCreated("reconcile", flat_key(filename))
                  /\ Set(r, Continue([run[r] EXCEPT !.log = @ \cup {<<"ok", phase, filename>>}],
                                     phase, run[r].todo))
             ELSE /\ UNCHANGED <<store, writes, pending>>
                  /\ Set(r, Continue([run[r] EXCEPT !.log = @ \cup {<<"error", phase, filename>>}],
                                     phase, after_file_error(run[r].todo)))
    /\ UNCHANGED <<website, env_ok, generation, pop_puts,
                   cmp_vars, cls_vars, disp_vars, ing_vars, ret_vars>>

\* lines 206-213: s3_client.delete_object of the key recorded in the listing
MainDelete(r) ==
    /\ run[r].pc = "deleted"
    /\ \E filename \in run[r].todo, ok \in BOOLEAN :
         LET rr == [run[r] EXCEPT !.attempts[filename] = @ + 1]
             rest == run[r].todo \ {filename}
         IN  IF ok
             THEN /\ store' = delete_object(store, run[r].s3_files[filename].key)
                  /\ Set(r, Continue([rr EXCEPT !.log = @ \cup {<<"ok", "deleted", filename>>}],
                                     "deleted", rest))
             ELSE /\ UNCHANGED store
                  /\ Set(r, Continue([rr EXCEPT !.log = @ \cup {<<"error", "deleted", filename>>}],
                                     "deleted", after_file_error(rest)))
    /\ UNCHANGED <<website, env_ok, cmp_vars, cls_vars, disp_vars, ing_vars, ret_vars, trg_vars>>

\* lines 244-246 and 109-127: the finally clause uploads the log; main then
\* returns None on every path
MainSaveLogs(r) ==
    /\ run[r].pc = "save_logs"
    /\ \E ok \in BOOLEAN :
         IF ok
         THEN /\ store' = put_object(store, log_key, 1)
              /\ ObjectCreated("reconcile", log_key)
         ELSE UNCHANGED <<store, writes, pending>>
    /\ Set(r, [run[r] EXCEPT !.pc = "done", !.result = NoneType])
    /\ UNCHANGED <<website, env_ok, generation, pop_puts,
                   cmp_vars, cls_vars, disp_vars, ing_vars, ret_vars>>

\* the next scheduled invocation calls main again: every local starts afresh;
\* retry remembers the names whose download or upload failed in the run that
\* just ended
failed_uploads(r) ==
    {e[3] : e \in {x \in run[r].log : x[1] = "error" /\ x[2] \in {"new", "modified"}}}

MainAgain(r) ==
    /\ run[r].pc = "done"
    /\ run[r].round < MaxRuns
    /\ Set(r, [IdleRun EXCEPT !.pc = "start",
                              !.round = run[r].round + 1,
                              !.retry = failed_uploads(r)])
    /\ UNCHANGED <<website, store, env_ok, cmp_vars, cls_vars, disp_vars, ing_vars, ret_vars, trg_vars>>

\* two invocations of main started on the same catalog and the same store
ConcurrentInit ==
    /\ website \in Catalogs
    /\ store \in Stores
    /\ env_ok = TRUE
    /\ run = [r \in Runs |-> [IdleRun EXCEPT !.pc = "start"]]

\* ------------------------------------------------------------- C4, C5, C6
names_and_sizes(listing) == [n \in DOMAIN listing |-> listing[n].size]

MainFinished(r) == run[r].pc \in {"done", "raised"}

no_file_failure(r) == ~\E e \in run[r].log : e[1] = "error"

\* C4: when a run completes with no per-file failure, the target listing
\* fetched again has exactly the names and sizes of the source listing.
C4_TargetEqualsSource ==
    (/\ run[1].pc = "done"
     /\ run[1].page_ok /\ run[1].head_failed = {} /\ run[1].list_ok
     /\ no_file_failure(1))
    => names_and_sizes(get_s3_files(store, TRUE))
           = names_and_sizes(run[1].website_files)

touched(r) ==
    run[r].new_files \cup run[r].deleted_files \cup run[r].modified_files

\* C5: a failing download, upload or delete is caught at its file: it never
\* ends the run, and once the three loops are over every name in added,
\* removed and modified has been attempted exactly once and has its log line.
C5_FileIsolation ==
    /\ run[1].pc = "raised" => ~env_ok
    /\ \A n \in FileNames : run[1].attempts[n] <= 1
    /\ run[1].pc \in {"save_logs", "done"} =>
           /\ \A n \in FileNames :
                  run[1].attempts[n] = IF n \in touched(1) THEN 1 ELSE 0
           /\ \A n \in run[1].new_files :
                  \E e \in run[1].log : e[2] = "new" /\ e[3] = n
           /\ \A n \in run[1].deleted_files :
                  \E e \in run[1].log : e[2] = "deleted" /\ e[3] = n
           /\ \A n \in run[1].modified_files :
                  \E e \in run[1].log : e[2] = "modified" /\ e[3] = n

\* an upload of an added file failed and a later loop still handled its file
C5_Witness ==
    /\ run[1].pc = "done"
    /\ \E e \in run[1].log : e[1] = "error" /\ e[2] = "new"
    /\ \E e \in run[1].log : e[2] \in {"deleted", "modified"}
    /\ Cardinality(touched(1)) = 2

\* C6: a finished run returns a tally {uploaded, deleted, failed} that
\* accounts for every name in added, removed and modified, and it raises
\* when one of the listings could not be produced.
C6_TallyReturned ==
    (MainFinished(1) /\ env_ok) =>
        IF run[1].page_ok /\ run[1].list_ok
        THEN /\ run[1].pc = "done"
             /\ run[1].result.type = "dict"
             /\ run[1].result.uploaded + run[1].result.deleted + run[1].result.failed
                    = Cardinality(touched(1))
        ELSE run[1].pc = "raised"

\* ------------------------------------------------------------ C18, C19, C20
\* the objects under the data prefix
data_objects(st) == [k \in {j \in DOMAIN st : j[1] = "bls_data"} |-> st[k]]

Listed(r) == run[r].pc \notin {"idle", "start", "raised", "fetch_web", "fetch_s3"}

\* a fetch that failed as a whole produced the empty mapping without raising
C18_EmptyMapping ==
    /\ ~run[1].page_ok => DOMAIN run[1].website_files = {} /\ run[1].pc # "raised"
    /\ ~run[1].list_ok => DOMAIN run[1].s3_files = {} /\ run[1].pc # "raised"

\* no step of a run that holds an empty listing changes a data object
C18_NoWrite ==
    (/\ Listed(1)
     /\ DOMAIN run[1].website_files = {} \/ DOMAIN run[1].s3_files = {})
    => data_objects(store') = data_objects(store)

\* C18: a fetcher whose listing fails as a whole returns the empty mapping
\* instead of raising, and a run in which either listing is empty uploads and
\* deletes nothing: the data objects of the target stay as they were.
C18_EmptyListingNoWrites == []C18_EmptyMapping /\ [][C18_NoWrite]_vars

\* the catalog page could not be fetched while the target held objects
C18_Witness ==
    /\ run[1].pc = "done"
    /\ ~run[1].page_ok
    /\ DOMAIN run[1].s3_files # {}
    /\ DOMAIN data_objects(store) # {}
    /\ DOMAIN website # {}

Diffed(r) == Listed(r) /\ run[r].pc # "compare"

fetched_whole(r) == run[r].page_ok /\ run[r].head_failed = {} /\ run[r].list_ok

\* C15: a file whose upload failed in one run is classified added or modified
\* again by the next run, and a run that follows it and meets no failure
\* leaves the target listing equal to the source listing in names and sizes.
C15_SelfHealing ==
    (run[1].round > 1 /\ fetched_whole(1)) =>
        /\ Diffed(1) =>
               run[1].retry \subseteq run[1].new_files \cup run[1].modified_files
        /\ (run[1].pc = "done" /\ no_file_failure(1)) =>
               names_and_sizes(get_s3_files(store, TRUE))
                   = names_and_sizes(run[1].website_files)

\* C16: two interleaved runs on the same unchanging catalog and the same
\* store, with no failure of a file, leave the target with exactly the names
\* and sizes of the source once both have finished.
C16_ConcurrentRuns ==
    (\A r \in Runs : run[r].pc = "done" /\ fetched_whole(r) /\ no_file_failure(r))
    => names_and_sizes(get_s3_files(store, TRUE))
           = [n \in DOMAIN website |-> website[n]]

objects_named(st, n) ==
    {k \in DOMAIN st : k[1] = "bls_data" /\ basename(k) = n}

\* C19: every upload for a name n wrote bls_data/n, every delete removed the
\* key recorded for the name in the target listing, which lies under
\* bls_data/, no object outside bls_data/ was put or deleted as data, and an
\* object at the nested key bls_data/sub/n classified modified was replaced
\* in place, the target then holding one object named n.
C19_KeysUnderPrefix ==
    /\ \A k \in DOMAIN store : k[1] = "bls_data" \/ k = log_key
    /\ \A e \in run[1].log :
         /\ (e[1] = "ok" /\ e[2] \in {"new", "modified"}) =>
                /\ flat_key(e[3]) \in DOMAIN store
                /\ store[flat_key(e[3])] = website[e[3]]
         /\ (e[1] = "ok" /\ e[2] = "deleted") =>
                /\ run[1].s3_files[e[3]].key[1] = "bls_data"
                /\ run[1].s3_files[e[3]].key \notin DOMAIN store
         /\ (e[1] = "ok" /\ e[2] = "modified"
             /\ run[1].s3_files[e[3]].key = nested_key(e[3])) =>
                Cardinality(objects_named(store, e[3])) = 1

\* C20: a target object is deleted only when its file is no longer in the
\* remote catalog; a failed HEAD request for a file that is still there
\* never has its target object deleted.
C20_DeleteOnlyAbsent ==
    \A e \in run[1].log :
        (e[1] = "ok" /\ e[2] = "deleted") => e[3] \notin DOMAIN website

\* =========================================================================
\* scripts/fetch_data_from_api.py  fetch_and_store_population_data, and the
\* scheduled branch of orchestrator_lambda.py  lambda_handler
\* =========================================================================
Years == {2020, 2021}

\* an element of payload["data"]: the keys it has and its Year
Items ==
    {[has_Year |-> TRUE, Year |-> y, has_Population |-> p] : y \in Years, p \in BOOLEAN}
    \cup {[has_Year |-> FALSE, Year |-> 0, has_Population |-> p] : p \in BOOLEAN}

\* response.json(): a JSON object with or without "data", a JSON array, a number
DictPayload(items) == [kind |-> "dict", has_data |-> TRUE, data |-> items]
NoDataPayload == [kind |-> "dict", has_data |-> FALSE, data |-> <<>>]
ListPayload == [kind |-> "list", has_data |-> FALSE, data |-> <<>>]
NumberPayload == [kind |-> "number", has_data |-> FALSE, data |-> <<>>]
NoPayload == [kind |-> "none", has_data |-> FALSE, data |-> <<>>]

Payloads ==
    {NoDataPayload, ListPayload, NumberPayload}
    \cup {DictPayload(items) : items \in SeqsUpTo(Items, MaxItems)}

\* line 40: population_data/population_data_<timestamp>.json
pop_key == <<"population_data", "population_data_ts.json">>

\* line 43: the length of json.dumps(data) grows with the number of items
json_size(data) == Len(data.data) + 1

MaxOf(S) == CHOOSE m \in S : \A x \in S : x <= m

\* lines 56-68: the summary logged after the upload
\*   'data' in data; years = sorted(set(item['Year'] ...)); years[0];
\*   next(item['Population'] for item in data['data'] if item['Year'] == latest_year)
summary(data) ==
    IF data.kind = "number" THEN "TypeError"
    ELSE IF ~data.has_data THEN "ok"
    ELSE IF \E i \in 1..Len(data.data) : ~data.data[i].has_Year THEN "KeyError"
    ELSE IF Len(data.data) = 0 THEN "IndexError"
    ELSE LET latest_year == MaxOf({data.data[i].Year : i \in 1..Len(data.data)})
             first == CHOOSE i \in 1..Len(data.data) :
                        /\ data.data[i].Year = latest_year
                        /\ \A j \in 1..(i - 1) : data.data[j].Year # latest_year
         IN  IF data.data[first].has_Population THEN "ok" ELSE "KeyError"

IngestIdle ==
    /\ fetch_pc = "idle"
    /\ payload = NoPayload
    /\ fetch_exc = NoValue

NoCalls == [ingest |-> 0, publish |-> 0, dispatch |-> 0, notify |-> 0]

ReturnIdle ==
    /\ sqs_outcome = "none"
    /\ calls = NoCalls
    /\ h_result = NoResult

TriggerIdle ==
    /\ writes = {}
    /\ pending = {}
    /\ generation = 0
    /\ pop_puts = 0

\* lines 70-78: each except clause logs and re-raises
fetch_error_swallowed(exc) == FALSE

fetch_error_reraised(exc) == TRUE

\* fetch_and_store_population_data is left, by an exception that reaches the
\* caller of lambda_handler (169) or by falling off its end; in the second
\* case line 171 calls publish_main
FetchEnd(c, raised, exc) ==
    /\ fetch_exc' = exc
    /\ IF raised /\ fetch_error_reraised(exc)
       THEN /\ fetch_pc' = "raised"
            /\ h_pc' = "Error"
            /\ h_exc' = exc
            /\ calls' = c
            /\ UNCHANGED run
       ELSE /\ fetch_pc' = "returned"
            /\ h_pc' = "Reconcile"
            /\ h_exc' = NoValue
            /\ calls' = [c EXCEPT !.publish = @ + 1]
            /\ run' = [run EXCEPT ![1] = [IdleRun EXCEPT !.pc = "start"]]

\* lines 32-33: requests.get and raise_for_status
FetchRequest ==
    /\ h_pc = "Ingest"
    /\ fetch_pc = "request"
    /\ \E ok \in BOOLEAN :
         IF ok
         THEN /\ fetch_pc' = "parse"
              /\ calls' = [calls EXCEPT !.ingest = @ + 1]
              /\ UNCHANGED <<h_pc, h_exc, run, fetch_exc>>
         ELSE FetchEnd([calls EXCEPT !.ingest = @ + 1], TRUE, "RequestException")
    /\ UNCHANGED <<event, payload, website, store, env_ok, sqs_outcome, h_result,
                   cmp_vars, disp_vars, trg_vars>>

\* line 36: response.json()
FetchParse ==
    /\ h_pc = "Ingest"
    /\ fetch_pc = "parse"
    /\ \/ \E data \in Payloads :
            /\ payload' = data
            /\ fetch_pc' = "put"
            /\ UNCHANGED <<h_pc, h_exc, run, calls, fetch_exc>>
       \/ /\ FetchEnd(calls, TRUE, "JSONDecodeError")
          /\ UNCHANGED payload
    /\ UNCHANGED <<event, website, store, env_ok, sqs_outcome, h_result,
                   cmp_vars, disp_vars, trg_vars>>

\* lines 39-54: json.dumps and s3_client.put_object
FetchPut ==
    /\ h_pc = "Ingest"
    /\ fetch_pc = "put"
    /\ \E ok \in BOOLEAN :
         IF ok
         THEN /\ store' = put_object(store, pop_key, json_size(payload))
              /\ ObjectCreated("ingest", pop_key)
              /\ pop_puts' = pop_puts + 1
              /\ fetch_pc' = "summary"
              /\ UNCHANGED <<h_pc, h_exc, run, calls, fetch_exc>>
         ELSE /\ FetchEnd(calls, TRUE, "ClientError")
              /\ UNCHANGED <<store, writes, pending, pop_puts>>
    /\ UNCHANGED <<event, payload, website, env_ok, sqs_outcome, h_result, generation,
                   cmp_vars, disp_vars>>

\* lines 56-68, then the end of the function; the local data goes out of
\* scope on return
FetchSummary ==
    /\ h_pc = "Ingest"
    /\ fetch_pc = "summary"
    /\ IF summary(payload) = "ok"
       THEN /\ FetchEnd(calls, FALSE, NoValue)
            /\ payload' = NoPayload
       ELSE /\ FetchEnd(calls, TRUE, summary(payload))
            /\ payload' = IF fetch_error_reraised(summary(payload))
                          THEN payload ELSE NoPayload
    /\ UNCHANGED <<event, website, store, env_ok, sqs_outcome, h_result,
                   cmp_vars, disp_vars, trg_vars>>

\* lambda_handler 171: publish_main() raised EnvironmentError (main 141-142)
PublishRaise ==
    /\ h_pc = "Reconcile"
    /\ run[1].pc = "raised"
    /\ h_pc' = "Error"
    /\ h_exc' = "EnvironmentError"
    /\ UNCHANGED <<event, cmp_vars, disp_vars, pub_vars, ing_vars, ret_vars, trg_vars>>

\* lambda_handler 171-181: publish_main() returned, the message is built
PublishReturn ==
    /\ h_pc = "Reconcile"
    /\ run[1].pc = "done"
    /\ h_pc' = "Notify"
    /\ UNCHANGED <<event, h_exc, cmp_vars, disp_vars, pub_vars, ing_vars, ret_vars, trg_vars>>

\* lambda_handler 183-194: send_sqs_notification wrapped in try/except, then
\* the result is returned
HandlerNotify ==
    /\ h_pc = "Notify"
    /\ \E outcome \in {"skipped", "sent", "raised"} :
         /\ Notify(outcome)
         /\ h_result' = [NoResult EXCEPT !.kind = "publish",
                                         !.fetch = NoneType,
                                         !.publish = run[1].result,
                                         !.sqsNotified = notified_value(queue_url, outcome)]
    /\ h_pc' = "Done"
    /\ UNCHANGED <<event, h_exc, d_pc, rec_i, processed, skipped, invoked, nb_failed,
                   d_exc, nb_env, queue_url,
                   cmp_vars, pub_vars, ing_vars, trg_vars>>

\* ---- inputs of an invocation: an event of either kind, and the stores the
\* branch it selects works on
InvocationEvents ==
    {NonDictEvent, NoRecordsEvent, NullRecordsEvent} \cup DispatchEvents

\* target stores of an invocation: flat objects of one size
InvocationStores ==
    {[k \in {flat_key(n) : n \in D} |-> CHOOSE s \in Sizes : \A t \in Sizes : s <= t] :
       D \in SUBSET FileNames}

HandlerInit ==
    /\ event \in InvocationEvents
    /\ h_pc = "Start"
    /\ h_exc = NoValue
    /\ d_pc = "start"
    /\ rec_i = 0
    /\ processed = <<>>
    /\ skipped = <<>>
    /\ invoked = [i \in 1..Len(event.Records) |-> 0]
    /\ nb_failed = {}
    /\ d_exc = NoValue
    /\ queue_url \in BOOLEAN
    /\ notified = FALSE
    /\ sqs_sent = 0
    /\ IF _is_s3_put_event(event) = "False"
       THEN /\ nb_env = TRUE
            /\ website \in Catalogs
            /\ store \in InvocationStores
            /\ env_ok \in BOOLEAN
       ELSE /\ nb_env \in BOOLEAN
            /\ website = <<>>
            /\ store = <<>>
            /\ env_ok = TRUE
    /\ run = [r \in Runs |-> IdleRun]
    /\ fetch_pc = "request"
    /\ payload = NoPayload
    /\ fetch_exc = NoValue
    /\ ReturnIdle

\* ------------------------------------------------- C11, C12, C13, C14, C17
HandlerEnded == h_pc \in {"Done", "Error"}

\* C11: on either branch, a notification send that raises leaves the
\* invocation returning normally with sqsNotified false and every other field
\* of the result as it was computed before the send, hence as in the
\* invocation whose send succeeds; sqsNotified is true only when the queue
\* URL is set and the send did not raise.
C11_NotifyFailureContained ==
    /\ sqs_outcome = "raised" => h_pc = "Done" /\ ~h_result.sqsNotified
    /\ h_result.sqsNotified => queue_url /\ sqs_outcome = "sent"
    /\ h_pc = "Done" => h_result.kind \in {"dispatch", "publish"}
    /\ h_result.kind = "dispatch" =>
          h_result.processed = processed /\ h_result.skipped = skipped
    /\ h_result.kind = "publish" =>
          h_result.fetch = NoneType /\ h_result.publish = run[1].result

\* the send raised after a notebook had been run for a record
C11_Witness ==
    /\ h_pc = "Done"
    /\ sqs_outcome = "raised"
    /\ h_result.kind = "dispatch"
    /\ Len(h_result.processed) > 0
    /\ ~h_result.sqsNotified

\* the branch met no failure, or only the failure of a file or of a record
OnlyPartialFailure ==
    \/ h_pc = "Done"
    \/ h_pc = "Error" /\ nb_failed # {}

\* C12: every invocation, whether its branch succeeded or a file or a record
\* failed, makes the completion notification attempt exactly once, and only
\* after the work of the branch has finished.
C12_NotifyOnEveryPath ==
    /\ HandlerEnded /\ OnlyPartialFailure => calls.notify = 1
    /\ calls.notify > 0 => d_pc = "returned" \/ run[1].pc = "done"

\* C13: a failed API request or a malformed response body makes
\* fetch_and_store_population_data raise to the caller of lambda_handler:
\* no population object is written, the reconciliation is not started and
\* no notification is sent.
C13_FetchFailureRaises ==
    fetch_exc \in {"RequestException", "JSONDecodeError"} =>
        /\ fetch_pc = "raised"
        /\ h_pc = "Error"
        /\ h_exc = fetch_exc
        /\ pop_key \notin DOMAIN store
        /\ run[1].pc = "idle"
        /\ calls.publish = 0
        /\ calls.notify = 0
        /\ sqs_sent = 0

\* the response body could not be decoded
C13_Witness ==
    /\ fetch_exc = "JSONDecodeError"
    /\ h_pc = "Error"
    /\ calls.ingest = 1

\* C14: once a decoded payload has been stored, whatever its shape, the
\* ingestion ends without raising and the invocation goes on to the
\* reconciliation.
C14_SummaryBestEffort ==
    pop_key \in DOMAIN store =>
        /\ fetch_pc \in {"summary", "returned"}
        /\ fetch_pc = "returned" => calls.publish = 1

\* the stages an invocation may move between in one step
StageOrder ==
    {<<"Start", "Dispatch">>, <<"Start", "Ingest">>, <<"Start", "Error">>,
     <<"Dispatch", "Done">>, <<"Dispatch", "Error">>,
     <<"Ingest", "Reconcile">>, <<"Ingest", "Error">>,
     <<"Reconcile", "Notify">>, <<"Reconcile", "Error">>,
     <<"Notify", "Done">>}

C17_Stages ==
    /\ \A f \in DOMAIN calls : calls[f] <= 1
    /\ ~(calls.dispatch > 0 /\ (calls.ingest > 0 \/ calls.publish > 0))
    /\ calls.publish > 0 => fetch_pc = "returned"
    /\ run[1].pc # "idle" => calls.publish = 1
    /\ fetch_pc # "request" => calls.ingest = 1
    /\ d_pc # "start" => calls.dispatch = 1
    /\ calls.notify > 0 => d_pc = "returned" \/ run[1].pc = "done"
    /\ h_pc = "Done" =>
          /\ calls.notify = 1
          /\ calls.dispatch = 1 \/ (calls.ingest = 1 /\ calls.publish = 1)
    /\ h_pc = "Error" => calls.notify = 0 /\ sqs_sent = 0

C17_Step == h_pc' # h_pc => <<h_pc, h_pc'>> \in StageOrder

\* C17: an invocation goes from Start through the classification into
\* exactly one branch (ingestion then reconciliation, or dispatch), then the
\* notification, then Done; it never runs both branches, finishes ingestion
\* before reconciliation starts, enters each of ingestion, reconciliation,
\* dispatch and notification at most once, and a failure that leaves a
\* branch ends it in the error state without a notification.
C17_OneBranchInOrder == []C17_Stages /\ [][C17_Step]_vars

\* the scheduled branch ran ingestion, reconciliation and the notification
C17_Witness ==
    /\ h_pc = "Done"
    /\ calls = [ingest |-> 1, publish |-> 1, dispatch |-> 0, notify |-> 1]
    /\ run[1].pc = "done"
    /\ run[1].log # {}

\* =========================================================================
\* The store's event source: every object written is announced to
\* lambda_handler as a storage-creation event
\* =========================================================================
s_bls_data_ == <<"b", "l", "s", "_", "d", "a", "t", "a", "/">>
s_pop_object == <<"p", "o", "p", "u", "l", "a", "t", "i", "o", "n", "_", "d", "a", "t", "a", "/", "p", "o", "p", "u", "l", "a", "t", "i", "o", "n", "_", "d", "a", "t", "a", "_", "t", "s", ".", "j", "s", "o", "n">>
s_log_object == <<"l", "o", "g", "s", "/", "s", "y", "n", "c", "_", "l", "o", "g">>
s_executed_object == <<"e", "x", "e", "c", "u", "t", "e", "d", "_", "t", "s", ".", "i", "p", "y", "n", "b">>

\* the key of a written object as the notification record spells it
KeyString(k) ==
    CASE k = pop_key -> s_pop_object
      [] k = log_key -> s_log_object
      [] k = executed_key -> s_executed_object
      [] OTHER -> s_bls_data_ \o <<basename(k)>>

\* the event delivered for one created object
CreatedEvent(k) ==
    ListEvent(<<DictRecord(Str(s_aws_s3), Str(s_ObjectCreated_Put), Str(KeyString(k)))>>)

\* once an invocation has ended, a pending notification starts the next one:
\* lambda_handler is entered afresh with the storage event of that object
Trigger ==
    /\ h_pc \in {"Done", "Error"}
    /\ \E n \in pending :
         /\ pending' = pending \ {n}
         /\ generation' = n.gen + 1
         /\ event' = CreatedEvent(n.key)
    /\ h_pc' = "Start"
    /\ h_exc' = NoValue
    /\ d_pc' = "start"
    /\ rec_i' = 0
    /\ processed' = <<>>
    /\ skipped' = <<>>
    /\ invoked' = <<0>>
    /\ nb_failed' = {}
    /\ d_exc' = NoValue
    /\ notified' = FALSE
    /\ sqs_sent' = 0
    /\ run' = [r \in Runs |-> IdleRun]
    /\ fetch_pc' = "request"
    /\ payload' = NoPayload
    /\ fetch_exc' = NoValue
    /\ sqs_outcome' = "none"
    /\ calls' = NoCalls
    /\ h_result' = NoResult
    /\ UNCHANGED <<nb_env, queue_url, website, store, env_ok, writes, pop_puts, cmp_vars>>

\* a scheduled invocation on any catalog and any flat target store, with the
\* notebook and the queue configured
TriggerInit ==
    /\ event = NoRecordsEvent
    /\ h_pc = "Start"
    /\ h_exc = NoValue
    /\ d_pc = "start"
    /\ rec_i = 0
    /\ processed = <<>>
    /\ skipped = <<>>
    /\ invoked = <<>>
    /\ nb_failed = {}
    /\ d_exc = NoValue
    /\ nb_env = TRUE
    /\ queue_url = TRUE
    /\ notified = FALSE
    /\ sqs_sent = 0
    /\ website \in Catalogs
    /\ store \in InvocationStores
    /\ env_ok \in BOOLEAN
    /\ run = [r \in Runs |-> IdleRun]
    /\ fetch_pc = "request"
    /\ payload = NoPayload
    /\ fetch_exc = NoValue
    /\ ReturnIdle

\* -------------------------------------------------------------------- C21
\* C21 as stated: handling a storage event writes no object, the
\* reconciliation writes only under bls_data/, a scheduled invocation
\* creates at most one population object, and the invocations it causes
\* cause none themselves.
C21_NoFeedbackLoop ==
    /\ \A w \in writes : w.by # "dispatch"
    /\ \A w \in writes : w.by = "reconcile" => w.key[1] = "bls_data"
    /\ pop_puts <= 1
    /\ generation <= 1
    /\ \A n \in pending : n.gen = 0

\* C21 amended: handling a storage event writes no object; the reconciliation
\* writes under bls_data/ and its run log under logs/, neither of which the
\* dispatch hands to the notebook; only the ingestion writes a key matching
\* population_data/*.json, at most once per scheduled invocation; so every
\* follow-up invocation is a dispatch that writes nothing and causes no
\* further invocation.
C21_NoFeedbackLoopAmended ==
    /\ \A w \in writes : w.by # "dispatch"
    /\ \A w \in writes :
         w.by = "reconcile" =>
            /\ w.key[1] = "bls_data" \/ w.key = log_key
            /\ ~key_matches(unquote_plus(KeyString(w.key)))
    /\ \A w \in writes :
         key_matches(unquote_plus(KeyString(w.key))) => w.by = "ingest" /\ w.key = pop_key
    /\ pop_puts <= 1
    /\ generation <= 1
    /\ \A n \in pending : n.gen = 0
    /\ generation = 1 =>
          /\ calls.ingest = 0 /\ calls.publish = 0
          /\ Len(processed) > 0 => event = CreatedEvent(pop_key)

\* the scheduled invocation wrote the population object, files and the log,
\* and the last of the invocations they caused has run the notebook
C21_Witness ==
    /\ generation = 1
    /\ h_pc = "Done"
    /\ Len(processed) = 1
    /\ pending = {}
    /\ pop_puts = 1
    /\ \E w \in writes : w.key = log_key
    /\ \E w \in writes : w.key[1] = "bls_data"

\* =========================================================================
\* Specifications
\* =========================================================================
\* compare_files applied to every pair of listings
CompareNext == Compare

InitCompare == CompareInit /\ ClassifyIdle /\ DispatchIdle /\ PublishIdle /\ IngestIdle /\ ReturnIdle /\ TriggerIdle

SpecCompare == InitCompare /\ [][CompareNext]_vars

\* lambda_handler's classification applied to every inbound event
ClassifyNext == Classify

InitClassify == ClassifyInit /\ CompareIdle /\ DispatchIdle /\ PublishIdle /\ IngestIdle /\ ReturnIdle /\ TriggerIdle

SpecClassify == InitClassify /\ [][ClassifyNext]_vars

\* _handle_s3_event on every event that was classified as a storage event
InitDispatch == DispatchInit /\ CompareIdle /\ PublishIdle /\ IngestIdle /\ ReturnIdle /\ TriggerIdle

SpecDispatch == InitDispatch /\ [][DispatchNext]_vars

\* one reconciliation run over every catalog and every store content
PublishNext ==
    \/ MainStart(1)
    \/ MainFetchWebsite(1)
    \/ MainFetchS3(1)
    \/ MainCompare(1)
    \/ MainDownload(1)
    \/ MainUpload(1)
    \/ MainDelete(1)
    \/ MainSaveLogs(1)

InitPublish == PublishInit /\ CompareIdle /\ ClassifyIdle /\ DispatchIdle /\ IngestIdle /\ ReturnIdle /\ TriggerIdle

SpecPublish == InitPublish /\ [][PublishNext]_vars

\* reconciliation runs made one after the other on an unchanging catalog
RepeatNext ==
    \/ MainStart(1)
    \/ MainFetchWebsite(1)
    \/ MainFetchS3(1)
    \/ MainCompare(1)
    \/ MainDownload(1)
    \/ MainUpload(1)
    \/ MainDelete(1)
    \/ MainSaveLogs(1)
    \/ MainAgain(1)

InitRepeat == PublishInit /\ CompareIdle /\ ClassifyIdle /\ DispatchIdle /\ IngestIdle /\ ReturnIdle /\ TriggerIdle

SpecRepeat == InitRepeat /\ [][RepeatNext]_vars

\* two reconciliation runs interleaved call by call
ConcurrentNext ==
    \/ MainStart(1)
    \/ MainFetchWebsite(1)
    \/ MainFetchS3(1)
    \/ MainCompare(1)
    \/ MainDownload(1)
    \/ MainUpload(1)
    \/ MainDelete(1)
    \/ MainSaveLogs(1)
    \/ MainStart(2)
    \/ MainFetchWebsite(2)
    \/ MainFetchS3(2)
    \/ MainCompare(2)
    \/ MainDownload(2)
    \/ MainUpload(2)
    \/ MainDelete(2)
    \/ MainSaveLogs(2)

InitConcurrent == ConcurrentInit /\ CompareIdle /\ ClassifyIdle /\ DispatchIdle /\ IngestIdle /\ ReturnIdle /\ TriggerIdle

SpecConcurrent == InitConcurrent /\ [][ConcurrentNext]_vars

\* one invocation of lambda_handler from the event to the value returned
HandlerNext ==
    \/ Classify
    \/ DispatchStart
    \/ DispatchRecord
    \/ NotebookDownload
    \/ NotebookExecute
    \/ DispatchNotify
    \/ FetchRequest
    \/ FetchParse
    \/ FetchPut
    \/ FetchSummary
    \/ MainStart(1)
    \/ MainFetchWebsite(1)
    \/ MainFetchS3(1)
    \/ MainCompare(1)
    \/ MainDownload(1)
    \/ MainUpload(1)
    \/ MainDelete(1)
    \/ MainSaveLogs(1)
    \/ PublishRaise
    \/ PublishReturn
    \/ HandlerNotify

InitHandler == HandlerInit /\ CompareIdle /\ TriggerIdle

SpecHandler == InitHandler /\ [][HandlerNext]_vars

\* a scheduled invocation followed by the invocations its writes cause
TriggerNext ==
    \/ Classify
    \/ DispatchStart
    \/ DispatchRecord
    \/ NotebookDownload
    \/ NotebookExecute
    \/ DispatchNotify
    \/ FetchRequest
    \/ FetchParse
    \/ FetchPut
    \/ FetchSummary
    \/ MainStart(1)
    \/ MainFetchWebsite(1)
    \/ MainFetchS3(1)
    \/ MainCompare(1)
    \/ MainDownload(1)
    \/ MainUpload(1)
    \/ MainDelete(1)
    \/ MainSaveLogs(1)
    \/ PublishRaise
    \/ PublishReturn
    \/ HandlerNotify
    \/ Trigger

InitTrigger == TriggerInit /\ CompareIdle /\ TriggerIdle

SpecTrigger == InitTrigger /\ [][TriggerNext]_vars

====
